---- MODULE Spec2Model ----
(***************************************************************************)
(* Model of libtorrent's aux::websocket_stream (src/websocket_stream.cpp): *)
(* the connect sequence resolve -> TCP connect -> (TLS handshake) ->       *)
(* websocket handshake, close(), and the read/write completion proxies.    *)
(* Every asynchronous operation the class issues is an element of          *)
(* `pending`; every post(m_io_service, ...) is an element of `posted`.     *)
(***************************************************************************)
EXTENDS Integers, Sequences, FiniteSets, TLC

\* ------------------------------------------------------------------ bounds
MaxCalls == 3       \* connect(), close(), read() and write() calls made
MaxAddrs == 2       \* addresses the resolver may return

\* ------------------------------------------------------- program constants
DefaultPort == 443      \* if(port <= 0) port = 443;
PortModulus == 65536    \* std::uint16_t port

VARIABLES
    m_open, m_connecting,       \* the two lifecycle flags
    m_ssl_context,              \* whether a TLS context was given
    m_stream,                   \* alternative held by the variant
    m_url, m_hostname, m_port, m_target,
    m_endpoints,
    m_connect_handler,          \* id of the stored connect handler, 0 = none
    pending,                    \* outstanding asynchronous operations
    posted,                     \* handlers posted to the io_context, FIFO
    invoked,                    \* per handler: the error codes it was run with
    calls,                      \* kinds of the calls the caller has made
    resolved,                   \* per attempt: the resolver's answer
    superseded                  \* attempts in flight when close() was called

vars == <<m_open, m_connecting, m_ssl_context, m_stream, m_url, m_hostname,
          m_port, m_target, m_endpoints, m_connect_handler, pending, posted,
          invoked, calls, resolved, superseded>>

urlVars == <<m_url, m_hostname, m_port, m_target>>
flagVars == <<m_open, m_connecting>>

\* ------------------------------------------------------------------ inputs
Calls == 1..MaxCalls

\* A URL is the text split at its delimiters: <<scheme, host, port, path>>,
\* port -1 when the text has none.
EmptyUrl == <<"", "", -1, "">>
Urls == { <<"ws", "h1", -1, "">>,
          <<"wss", "h2", 8080, "/p">>,
          <<"ws", "h3", 70000, "/">>,
          <<"http", "h1", -1, "/">>,
          EmptyUrl }

\* Non-empty resolver answers; an address is named by its place in the answer.
ResolveResults ==
    { [i \in 1..n |-> i] : n \in 1..MaxAddrs }

ResolveErrors == {"host_not_found"}
TcpErrors == {"connection_refused"}
SslErrors == {"ssl_error"}
HandshakeErrors == {"handshake_failed"}
IoResults == {"ok", "closed", "io_error"}

StageKinds == {"resolve", "tcp", "ssl", "handshake"}

\* ----------------------------------------------------------------- helpers
\* An outstanding operation. For an async_connect: eps is the range it
\* walks, idx the candidate it is trying, tried the addresses that failed.
\* For a stage operation: att is the connect() call whose sequence it
\* belongs to and var the alternative that call emplaced; host and target
\* are the arguments of async_resolve and async_handshake.
Op(kind, att, h, eps, idx, stale) ==
    [kind |-> kind, att |-> att, h |-> h, eps |-> eps, idx |-> idx,
     stale |-> stale, tried |-> <<>>, var |-> "", host |-> "", target |-> ""]

\* The operation of the next stage of op's sequence.
StageOp(op, kind, eps, idx, host, target) ==
    [Op(kind, op.att, 0, eps, idx, FALSE)
        EXCEPT !.var = op.var, !.host = host, !.target = target]

\* A handler bound with its arguments and posted: `h` is the handler that
\* was bound, `att` the call or attempt it was posted for, `by` the function
\* that posted it and `inp` the error code that function was given.
Completion(kind, h, ec, att, by, inp) ==
    [kind |-> kind, h |-> h, ec |-> ec, att |-> att, by |-> by, inp |-> inp]

Last(s) == s[Len(s)]

RECURSIVE Reverse(_)
Reverse(s) == IF s = <<>> THEN <<>> ELSE Append(Reverse(Tail(s)), Head(s))

IsPrefix(s, t) == Len(s) <= Len(t) /\ \A i \in 1..Len(s) : s[i] = t[i]

\* Outstanding TCP connects whose socket or endpoint range has been replaced.
MarkStale(ops) ==
    { IF op.kind = "tcp" THEN [op EXCEPT !.stale = TRUE] ELSE op : op \in ops }

InFlight == { op.att : op \in { o \in pending : o.kind \in StageKinds } }

\* parse_url_components: no scheme or no host is a parse error.
parse_url_components(url) ==
    IF url[1] = "" \/ url[2] = ""
    THEN [ec |-> "invalid_url", protocol |-> "", hostname |-> "", port |-> -1,
          path |-> ""]
    ELSE [ec |-> "ok", protocol |-> url[1], hostname |-> url[2],
          port |-> url[3], path |-> url[4]]

Init ==
    /\ m_open = FALSE
    /\ m_connecting = FALSE
    /\ m_ssl_context \in BOOLEAN
    /\ m_stream = "plain"
    /\ m_url = EmptyUrl
    /\ m_hostname = ""
    /\ m_port = 0
    /\ m_target = ""
    /\ m_endpoints = <<>>
    /\ m_connect_handler = 0
    /\ pending = {}
    /\ posted = <<>>
    /\ invoked = [h \in Calls |-> <<>>]
    /\ calls = <<>>
    /\ resolved = [a \in Calls |-> <<>>]
    /\ superseded = {}

\* ------------------------------------------------------------------ close
\* close() without its guard.
close_unguarded ==
    /\ m_open' = FALSE
    /\ m_connecting' = FALSE
    /\ pending' = pending \cup {Op("close", Len(calls'), 0, <<>>, 0, FALSE)}
    /\ UNCHANGED <<m_ssl_context, m_stream, urlVars, m_endpoints,
                   m_connect_handler, posted, invoked, resolved>>

close ==
    /\ IF m_open \/ m_connecting
       THEN /\ m_open' = FALSE
            /\ m_connecting' = FALSE
            /\ pending' = pending \cup {Op("close", Len(calls'), 0, <<>>, 0, FALSE)}
       ELSE UNCHANGED <<m_open, m_connecting, pending>>
    /\ UNCHANGED <<m_ssl_context, m_stream, urlVars, m_endpoints,
                   m_connect_handler, posted, invoked, resolved>>

\* on_close() that reports the result of the close to the connect handler.
on_close_reports(op, ec) ==
    /\ pending' = pending \ {op}
    /\ posted' = Append(posted, Completion("connect", m_connect_handler, ec,
                                           op.att, "on_close", ec))
    /\ UNCHANGED <<flagVars, m_ssl_context, m_stream, urlVars, m_endpoints,
                   m_connect_handler, invoked, calls, resolved, superseded>>

on_close(op, ec) ==
    /\ pending' = pending \ {op}
    /\ UNCHANGED <<flagVars, m_ssl_context, m_stream, urlVars, m_endpoints,
                   m_connect_handler, posted, invoked, calls, resolved,
                   superseded>>

\* ---------------------------------------------------------------- connect
\* `ops` are the operations outstanding when the resolve is issued.
do_resolve(ops, att, hostname, port) ==
    /\ m_hostname' = hostname
    /\ m_port' = port % PortModulus
    /\ pending' = ops \cup {[Op("resolve", att, 0, <<>>, 0, FALSE)
                                EXCEPT !.var = m_stream', !.host = m_hostname']}

\* do_connect() without its m_open check.
do_connect_no_open_check(url) ==
    LET h == m_connect_handler'
        p == parse_url_components(url)
        reject(ec) ==
            /\ posted' = Append(posted, Completion("connect", h, ec, h, "do_connect", "ok"))
            /\ UNCHANGED <<flagVars, m_stream, m_hostname, m_port, pending>>
    IN
    /\ IF m_connecting THEN
            reject("already_started") /\ UNCHANGED <<m_url, m_target>>
       ELSE IF p.ec # "ok" THEN
            reject(p.ec) /\ m_url' = url /\ m_target' = p.path
       ELSE IF p.protocol = "ws" \/ (p.protocol = "wss" /\ m_ssl_context) THEN
            /\ m_url' = url
            /\ m_stream' = IF p.protocol = "ws" THEN "plain" ELSE "ssl"
            /\ m_target' = IF p.path = "" THEN "/" ELSE p.path
            /\ m_connecting' = TRUE
            /\ do_resolve(MarkStale(pending), h, p.hostname,
                          IF p.port <= 0 THEN DefaultPort ELSE p.port)
            /\ UNCHANGED <<m_open, posted>>
       ELSE reject("no_protocol_option") /\ m_url' = url /\ m_target' = p.path
    /\ UNCHANGED <<m_ssl_context, m_endpoints, invoked, resolved, superseded>>

\* do_connect() that calls the handler directly when the stream is open.
do_connect_sync_reject(url) ==
    LET h == m_connect_handler'
        p == parse_url_components(url)
        reject(ec) ==
            /\ posted' = Append(posted, Completion("connect", h, ec, h, "do_connect", "ok"))
            /\ UNCHANGED <<flagVars, m_stream, m_hostname, m_port, pending, invoked>>
    IN
    /\ IF m_open THEN
            /\ invoked' = [invoked EXCEPT ![h] = Append(@, "already_connected")]
            /\ UNCHANGED <<flagVars, m_stream, urlVars, pending, posted>>
       ELSE IF m_connecting THEN
            reject("already_started") /\ UNCHANGED <<m_url, m_target>>
       ELSE IF p.ec # "ok" THEN
            reject(p.ec) /\ m_url' = url /\ m_target' = p.path
       ELSE IF p.protocol = "ws" \/ (p.protocol = "wss" /\ m_ssl_context) THEN
            /\ m_url' = url
            /\ m_stream' = IF p.protocol = "ws" THEN "plain" ELSE "ssl"
            /\ m_target' = IF p.path = "" THEN "/" ELSE p.path
            /\ m_connecting' = TRUE
            /\ do_resolve(MarkStale(pending), h, p.hostname,
                          IF p.port <= 0 THEN DefaultPort ELSE p.port)
            /\ UNCHANGED <<m_open, posted, invoked>>
       ELSE reject("no_protocol_option") /\ m_url' = url /\ m_target' = p.path
    /\ UNCHANGED <<m_ssl_context, m_endpoints, resolved, superseded>>

\* do_connect() whose wss branch does not look at m_ssl_context.
do_connect_no_ctx_check(url) ==
    LET h == m_connect_handler'
        p == parse_url_components(url)
        reject(ec) ==
            /\ posted' = Append(posted, Completion("connect", h, ec, h, "do_connect", "ok"))
            /\ UNCHANGED <<flagVars, m_stream, m_hostname, m_port, pending>>
    IN
    /\ IF m_open THEN
            reject("already_connected") /\ UNCHANGED <<m_url, m_target>>
       ELSE IF m_connecting THEN
            reject("already_started") /\ UNCHANGED <<m_url, m_target>>
       ELSE IF p.ec # "ok" THEN
            reject(p.ec) /\ m_url' = url /\ m_target' = p.path
       ELSE IF p.protocol = "ws" \/ p.protocol = "wss" THEN
            /\ m_url' = url
            /\ m_stream' = IF p.protocol = "ws" THEN "plain" ELSE "ssl"
            /\ m_target' = IF p.path = "" THEN "/" ELSE p.path
            /\ m_connecting' = TRUE
            /\ do_resolve(MarkStale(pending), h, p.hostname,
                          IF p.port <= 0 THEN DefaultPort ELSE p.port)
            /\ UNCHANGED <<m_open, posted>>
       ELSE reject("no_protocol_option") /\ m_url' = url /\ m_target' = p.path
    /\ UNCHANGED <<m_ssl_context, m_endpoints, invoked, resolved, superseded>>

do_connect(url) ==
    LET h == m_connect_handler'
        p == parse_url_components(url)
        reject(ec) ==
            /\ posted' = Append(posted, Completion("connect", h, ec, h, "do_connect", "ok"))
            /\ UNCHANGED <<flagVars, m_stream, m_hostname, m_port, pending>>
    IN
    /\ IF m_open THEN
            reject("already_connected") /\ UNCHANGED <<m_url, m_target>>
       ELSE IF m_connecting THEN
            reject("already_started") /\ UNCHANGED <<m_url, m_target>>
       ELSE IF p.ec # "ok" THEN
            reject(p.ec) /\ m_url' = url /\ m_target' = p.path
       ELSE IF p.protocol = "ws" \/ (p.protocol = "wss" /\ m_ssl_context) THEN
            /\ m_url' = url
            /\ m_stream' = IF p.protocol = "ws" THEN "plain" ELSE "ssl"
            /\ m_target' = IF p.path = "" THEN "/" ELSE p.path
            /\ m_connecting' = TRUE
            /\ do_resolve(MarkStale(pending), h, p.hostname,
                          IF p.port <= 0 THEN DefaultPort ELSE p.port)
            /\ UNCHANGED <<m_open, posted>>
       ELSE reject("no_protocol_option") /\ m_url' = url /\ m_target' = p.path
    /\ UNCHANGED <<m_ssl_context, m_endpoints, invoked, resolved, superseded>>

\* connect(url, handler): stores the handler, then runs do_connect(url).
connect(url) ==
    /\ m_connect_handler' = Len(calls')
    /\ do_connect(url)

\* ------------------------------------------------------- stage completions
\* Variables no stage completion handler touches.
stageFrame == <<m_open, m_ssl_context, m_stream, urlVars, m_connect_handler,
                invoked, calls, superseded>>

\* A stage failed: m_connecting = false; post(bind(m_connect_handler, ec)).
fail_connect(op, ec, by, inp) ==
    /\ m_connecting' = FALSE
    /\ posted' = Append(posted, Completion("connect", m_connect_handler, ec, op.att, by, inp))
    /\ pending' = pending \ {op}
    /\ UNCHANGED m_endpoints

do_handshake(op) ==
    /\ pending' = (pending \ {op})
                    \cup {StageOp(op, "handshake", <<>>, 0, m_hostname, m_target)}
    /\ UNCHANGED <<m_connecting, m_endpoints, posted>>

\* sni_ec is the result of ssl::set_host_name.
do_ssl_handshake(op, sni_ec) ==
    IF sni_ec # "ok"
    THEN fail_connect(op, "ssl_setup_error", "do_ssl_handshake", sni_ec)
    ELSE /\ pending' = (pending \ {op})
                         \cup {StageOp(op, "ssl", <<>>, 0, "", "")}
         /\ UNCHANGED <<m_connecting, m_endpoints, posted>>

do_tcp_connect(op, endpoints) ==
    /\ m_endpoints' = endpoints
    /\ pending' = MarkStale(pending \ {op})
                    \cup {StageOp(op, "tcp", endpoints, Len(endpoints), "", "")}
    /\ UNCHANGED <<m_connecting, posted>>

on_resolve(op, ec, addresses) ==
    /\ IF ec # "ok"
       THEN fail_connect(op, ec, "on_resolve", ec)
       ELSE do_tcp_connect(op, [i \in DOMAIN addresses |-> <<addresses[i], m_port>>])
    /\ UNCHANGED stageFrame

\* on_tcp_connect() that never starts the TLS handshake.
on_tcp_connect_skip_tls(op, ec, sni_ec) ==
    /\ IF ec # "ok"
       THEN fail_connect(op, ec, "on_tcp_connect", ec)
       ELSE do_handshake(op)
    /\ UNCHANGED stageFrame

on_tcp_connect(op, ec, sni_ec) ==
    /\ IF ec # "ok"
       THEN fail_connect(op, ec, "on_tcp_connect", ec)
       ELSE IF m_stream = "ssl" THEN do_ssl_handshake(op, sni_ec)
       ELSE do_handshake(op)
    /\ UNCHANGED stageFrame

\* on_ssl_handshake() that hands the TLS error itself to the handler.
on_ssl_handshake_forwards_ec(op, ec) ==
    /\ IF ec # "ok"
       THEN fail_connect(op, ec, "on_ssl_handshake", ec)
       ELSE do_handshake(op)
    /\ UNCHANGED stageFrame

on_ssl_handshake(op, ec) ==
    /\ IF ec # "ok"
       THEN fail_connect(op, "operation_aborted", "on_ssl_handshake", ec)
       ELSE do_handshake(op)
    /\ UNCHANGED stageFrame

\* on_handshake() that sets m_open without clearing m_connecting.
on_handshake_keeps_connecting(op, ec) ==
    /\ pending' = pending \ {op}
    /\ IF ec # "ok" THEN
            /\ m_connecting' = FALSE
            /\ m_open' = m_open
            /\ posted' = Append(posted, Completion("connect", m_connect_handler, ec, op.att, "on_handshake", ec))
       ELSE IF ~m_connecting THEN
            /\ posted' = Append(posted, Completion("connect", m_connect_handler, "operation_aborted", op.att, "on_handshake", ec))
            /\ UNCHANGED <<m_open, m_connecting>>
       ELSE /\ m_connecting' = m_connecting
            /\ m_open' = TRUE
            /\ posted' = Append(posted, Completion("connect", m_connect_handler, "ok", op.att, "on_handshake", ec))
    /\ UNCHANGED <<m_ssl_context, m_stream, urlVars, m_endpoints,
                   m_connect_handler, invoked, calls, superseded>>

on_handshake(op, ec) ==
    /\ pending' = pending \ {op}
    /\ IF ec # "ok" THEN
            /\ m_connecting' = FALSE
            /\ m_open' = m_open
            /\ posted' = Append(posted, Completion("connect", m_connect_handler, ec, op.att, "on_handshake", ec))
       ELSE IF ~m_connecting THEN
            /\ posted' = Append(posted, Completion("connect", m_connect_handler, "operation_aborted", op.att, "on_handshake", ec))
            /\ UNCHANGED <<m_open, m_connecting>>
       ELSE /\ m_connecting' = FALSE
            /\ m_open' = TRUE
            /\ posted' = Append(posted, Completion("connect", m_connect_handler, "ok", op.att, "on_handshake", ec))
    /\ UNCHANGED <<m_ssl_context, m_stream, urlVars, m_endpoints,
                   m_connect_handler, invoked, calls, superseded>>

\* -------------------------------------------------------------- read/write
ioFrame == <<m_connecting, m_ssl_context, m_stream, urlVars, m_endpoints,
             m_connect_handler, invoked, calls, resolved, superseded>>

\* on_read() that forwards the clean close without clearing m_open.
on_read_keeps_open(op, ec) ==
    /\ pending' = pending \ {op}
    /\ IF ~m_open
       THEN UNCHANGED <<m_open, posted>>
       ELSE /\ m_open' = m_open
            /\ posted' = Append(posted, Completion("read", op.h, ec, 0, "on_read", ec))
    /\ UNCHANGED ioFrame

on_read(op, ec) ==
    /\ pending' = pending \ {op}
    /\ IF ~m_open
       THEN UNCHANGED <<m_open, posted>>
       ELSE /\ m_open' = IF ec = "closed" THEN FALSE ELSE m_open
            /\ posted' = Append(posted, Completion("read", op.h, ec, 0, "on_read", ec))
    /\ UNCHANGED ioFrame

\* on_write() that treats the clean close as on_read() does.
on_write_closes(op, ec) ==
    /\ pending' = pending \ {op}
    /\ IF ~m_open
       THEN UNCHANGED <<m_open, posted>>
       ELSE /\ m_open' = IF ec = "closed" THEN FALSE ELSE m_open
            /\ posted' = Append(posted, Completion("write", op.h, ec, 0, "on_write", ec))
    /\ UNCHANGED ioFrame

\* on_write() without its m_open check.
on_write_no_open_check(op, ec) ==
    /\ pending' = pending \ {op}
    /\ posted' = Append(posted, Completion("write", op.h, ec, 0, "on_write", ec))
    /\ UNCHANGED m_open
    /\ UNCHANGED ioFrame

on_write(op, ec) ==
    /\ pending' = pending \ {op}
    /\ IF ~m_open
       THEN UNCHANGED <<m_open, posted>>
       ELSE /\ posted' = Append(posted, Completion("write", op.h, ec, 0, "on_write", ec))
            /\ UNCHANGED m_open
    /\ UNCHANGED ioFrame

\* read(handler) / write(data, handler): hand the operation to the stream,
\* with on_read / on_write bound to the caller's handler.
async_io(kind) ==
    /\ pending' = pending \cup {Op(kind, 0, Len(calls'), <<>>, 0, FALSE)}
    /\ UNCHANGED <<flagVars, m_ssl_context, m_stream, urlVars, m_endpoints,
                   m_connect_handler, posted, invoked, resolved, superseded>>

\* The io_context runs the oldest posted handler.
run_posted ==
    /\ posted # <<>>
    /\ invoked' = [invoked EXCEPT ![Head(posted).h] = Append(@, Head(posted).ec)]
    /\ posted' = Tail(posted)
    /\ UNCHANGED <<flagVars, m_ssl_context, m_stream, urlVars, m_endpoints,
                   m_connect_handler, pending, calls, resolved, superseded>>

\* ------------------------------------------- the resolver and async_connect
\* The resolver completes the lookup.
resolve_done(op, ec, addresses) ==
    /\ resolved' = IF ec = "ok" THEN [resolved EXCEPT ![op.att] = addresses]
                   ELSE resolved
    /\ on_resolve(op, ec, addresses)

\* boost::asio::async_connect over [rbegin, rend): the candidate at idx
\* fails and is not the last one, so the next one is tried.
tcp_next(op) ==
    /\ ~op.stale
    /\ op.idx > 1
    /\ pending' = (pending \ {op})
                    \cup {[op EXCEPT !.idx = op.idx - 1,
                                     !.tried = Append(@, op.eps[op.idx][1])]}
    /\ UNCHANGED <<flagVars, m_ssl_context, m_stream, urlVars, m_endpoints,
                   m_connect_handler, posted, invoked, calls, resolved,
                   superseded>>

\* The candidate at idx connects, or it is the last one and fails.
tcp_done(op, ec, sni_ec) ==
    /\ ~op.stale
    /\ ec # "ok" => op.idx = 1
    /\ on_tcp_connect(op, ec, sni_ec)
    /\ UNCHANGED resolved

\* The socket was destroyed by m_stream.emplace, or m_endpoints was
\* reassigned, while this async_connect was outstanding: it is cancelled, or
\* it runs on a destroyed socket through dangling iterators and ends with
\* any result.
tcp_stale(op, ec, sni_ec) ==
    /\ op.stale
    /\ on_tcp_connect(op, ec, sni_ec)
    /\ UNCHANGED resolved

\* -------------------------------------------------------------- the actions
\* The caller makes its next call.
Call(kind) == Len(calls) < MaxCalls /\ calls' = Append(calls, kind)

Connect == Call("connect") /\ \E url \in Urls : connect(url)

Close == Call("close") /\ superseded' = superseded \cup InFlight /\ close

OnClose ==
    \E op \in pending, ec \in {"ok", "close_failed"} :
        op.kind = "close" /\ on_close(op, ec)

OnResolve ==
    \E op \in pending :
        /\ op.kind = "resolve"
        /\ \/ \E addresses \in ResolveResults : resolve_done(op, "ok", addresses)
           \/ \E ec \in ResolveErrors : resolve_done(op, ec, <<>>)

SniResults == {"ok", "sni_error"}

TcpNext == \E op \in pending : op.kind = "tcp" /\ tcp_next(op)

OnTcpConnect ==
    \E op \in pending, ec \in {"ok"} \cup TcpErrors, sni_ec \in SniResults :
        op.kind = "tcp" /\ tcp_done(op, ec, sni_ec)

OnTcpStale ==
    \E op \in pending, sni_ec \in SniResults,
       ec \in {"ok", "operation_aborted"} \cup TcpErrors :
        op.kind = "tcp" /\ tcp_stale(op, ec, sni_ec)

OnSslHandshake ==
    \E op \in pending, ec \in {"ok"} \cup SslErrors :
        op.kind = "ssl" /\ on_ssl_handshake(op, ec) /\ UNCHANGED resolved

OnHandshake ==
    \E op \in pending, ec \in {"ok"} \cup HandshakeErrors :
        op.kind = "handshake" /\ on_handshake(op, ec) /\ UNCHANGED resolved

\* The caller reads and writes on a stream that is open.
Read == Call("read") /\ m_open /\ async_io("read")

Write == Call("write") /\ m_open /\ async_io("write")

OnRead == \E op \in pending, ec \in IoResults : op.kind = "read" /\ on_read(op, ec)

OnWrite == \E op \in pending, ec \in IoResults : op.kind = "write" /\ on_write(op, ec)

RunPosted == run_posted

Next ==
    \/ Connect \/ Close \/ OnClose
    \/ OnResolve \/ TcpNext \/ OnTcpConnect \/ OnTcpStale
    \/ OnSslHandshake \/ OnHandshake
    \/ Read \/ Write \/ OnRead \/ OnWrite
    \/ RunPosted

Spec == Init /\ [][Next]_vars

\* ------------------------------------------- every stage succeeds, no close
ResolveOk ==
    \E op \in pending, addresses \in ResolveResults :
        op.kind = "resolve" /\ resolve_done(op, "ok", addresses)

TcpOk == \E op \in pending : op.kind = "tcp" /\ tcp_done(op, "ok", "ok")

SslOk ==
    \E op \in pending :
        op.kind = "ssl" /\ on_ssl_handshake(op, "ok") /\ UNCHANGED resolved

HandshakeOk ==
    \E op \in pending :
        op.kind = "handshake" /\ on_handshake(op, "ok") /\ UNCHANGED resolved

NextLive ==
    \/ Connect
    \/ ResolveOk \/ TcpNext \/ TcpOk \/ SslOk \/ HandshakeOk
    \/ RunPosted

\* Every outstanding operation completes and the io_context runs what is
\* posted to it.
SpecLive ==
    /\ Init /\ [][NextLive]_vars
    /\ WF_vars(ResolveOk) /\ WF_vars(TcpOk) /\ WF_vars(SslOk)
    /\ WF_vars(HandshakeOk) /\ WF_vars(RunPosted)

\* ------------------------------------------------------------------ claims
ConnectCalls == { c \in 1..Len(calls) : calls[c] = "connect" }

IoCalls == { c \in 1..Len(calls) : calls[c] \in {"read", "write"} }

PostedFor(c) == { i \in 1..Len(posted) : posted[i].h = c \/ posted[i].att = c }

\* Nothing of connect call c is outstanding: no stage operation of the
\* attempt it started, and no posted handler of it or for it.
Quiescent(c) ==
    /\ \A op \in pending : op.kind \in StageKinds => op.att # c
    /\ PostedFor(c) = {}

\* A step that posts exactly one more handler.
PostsOne == Len(posted') = Len(posted) + 1

\* A step in which the caller calls connect().
ConnectStep == calls' = Append(calls, "connect")

\* A step in which the caller calls close().
CloseStep == calls' = Append(calls, "close")

\* A step that completes the outstanding operation op.
Completes(op) == op \in pending /\ op \notin pending'

\* C1: the handler given to a connect() call is invoked exactly once: never
\* twice, and not zero times once nothing of the call is outstanding.
C1_HandlerExactlyOnce ==
    \A c \in ConnectCalls :
        /\ Len(invoked[c]) <= 1
        /\ Quiescent(c) => Len(invoked[c]) = 1

\* C2: once close() was called while an attempt was in flight, the success
\* completion of that attempt's protocol handshake never sets the state to
\* Open and posts operation_aborted to the connect handler.
C2_SupersededNeverOpen ==
    [][\A op \in pending :
          (/\ op.kind = "handshake"
           /\ op.att \in superseded
           /\ Completes(op)
           /\ PostsOne
           /\ Last(posted').inp = "ok")
          => (~m_open' /\ Last(posted').ec = "operation_aborted")]_vars

\* C3: connect() during an attempt's connecting phase posts already_started
\* to the second caller's handler and leaves the first attempt alone: target,
\* variant and outstanding operations unchanged; and the outcome of an
\* attempt is posted to the handler of the call that started it.
C3_SecondConnectRejected ==
    [][/\ (ConnectStep /\ m_connecting)
            => /\ PostsOne
               /\ Last(posted').ec = "already_started"
               /\ Last(posted').h = Len(calls')
               /\ UNCHANGED <<flagVars, m_stream, urlVars, m_endpoints, pending>>
       /\ (PostsOne /\ Last(posted').by # "do_connect" /\ Last(posted').kind = "connect")
            => Last(posted').h = Last(posted').att]_vars

\* C4: stage operations of at most one accepted connect() are outstanding.
C4_OneSequenceInFlight == Cardinality(InFlight) <= 1

\* C5: connect() while open posts already_connected to the caller's handler
\* and changes nothing else: flags, variant, url, hostname, port, target,
\* endpoints and the outstanding operations stay as they are.
C5_ConnectWhileOpen ==
    [][(ConnectStep /\ m_open)
          => /\ posted' = Append(posted, Completion("connect", Len(calls'),
                                   "already_connected", Len(calls'), "do_connect", "ok"))
             /\ UNCHANGED <<flagVars, m_stream, urlVars, m_endpoints, pending>>]_vars

\* A connect() was rejected with already_connected.
C5_Witness ==
    \E i \in 1..Len(posted) : posted[i].ec = "already_connected"

\* Invocations with no error, over all handlers.
OkCount ==
    Cardinality({ <<h, i>> \in Calls \X (1..(MaxCalls + 1)) :
                    i <= Len(invoked[h]) /\ invoked[h][i] = "ok" })

\* The stage that may follow stage k of the attempt accepted with m_url.
FollowsStage(k, k2) ==
    \/ k = "resolve" /\ k2 = "tcp"
    \/ k = "tcp" /\ k2 = "ssl" /\ m_url[1] = "wss"
    \/ k = "tcp" /\ k2 = "handshake" /\ m_url[1] = "ws"
    \/ k = "ssl" /\ k2 = "handshake"

StageOrder ==
    /\ \A op \in pending, op2 \in pending' :
          (/\ op.kind \in StageKinds /\ op2.kind \in StageKinds
           /\ op.att = op2.att /\ op.kind # op2.kind)
          => FollowsStage(op.kind, op2.kind)
    /\ \A op2 \in pending' :
          (op2.kind \in StageKinds /\ op2.att \notin InFlight)
          => op2.kind = "resolve"
    /\ (m_open' /\ ~m_open)
          => \E op \in pending : op.kind = "handshake" /\ Completes(op)

\* C6: when every stage succeeds and close() is not called, an accepted
\* connect() runs resolve, TCP connect, TLS handshake (wss only) and protocol
\* handshake in this order, and eventually the stream is open and the
\* connect handler has been invoked once with no error.
C6_EndToEndSuccess ==
    /\ [][StageOrder]_vars
    /\ [](OkCount <= 1)
    /\ (m_connecting ~> (m_open /\ OkCount = 1))

\* A wss attempt went through all four stages and its handler ran.
C6_Witness == m_open /\ OkCount = 1 /\ m_stream = "ssl"

\* C7: the endpoints an async_connect tries are, one at a time, the
\* resolver's answer in reverse order, and on_tcp_connect reports a failure
\* only when the last of them, the first of the answer, has failed too.
C7_ReverseOrderUntilExhausted ==
    [][\A op \in pending :
          op.kind = "tcp"
          => /\ IsPrefix(Append(op.tried, op.eps[op.idx][1]),
                         Reverse(resolved[op.att]))
             /\ (/\ Completes(op)
                 /\ PostsOne
                 /\ Last(posted').by = "on_tcp_connect"
                 /\ Last(posted').inp # "ok")
                => Append(op.tried, op.eps[op.idx][1]) = Reverse(resolved[op.att])]_vars

IoKinds == {"read", "write"}

\* What is left of the read or write call c: its outstanding operation, its
\* posted handler, the runs of its handler.
IoTokens(c) ==
    Cardinality({ op \in pending : op.kind \in IoKinds /\ op.h = c })
    + Cardinality({ i \in 1..Len(posted) :
                      posted[i].kind \in IoKinds /\ posted[i].h = c })
    + Len(invoked[c])

Dropped(c) == c \in IoCalls /\ IoTokens(c) = 0

\* C8: a read or write completion processed while not open is dropped: no
\* handler is posted, nothing is changed; a read or write handler is posted
\* only by a completion processed while open, and runs at most once.
C8_DroppedWhenNotOpen ==
    /\ [][/\ \A op \in pending :
                (op.kind \in IoKinds /\ Completes(op) /\ ~m_open)
                => UNCHANGED <<flagVars, m_stream, urlVars, m_endpoints,
                               m_connect_handler, posted, invoked>>
          /\ (PostsOne /\ Last(posted').kind \in IoKinds) => m_open]_vars
    /\ [](\A c \in IoCalls : IoTokens(c) <= 1)

\* A read or write was issued and its completion was dropped.
C8_Witness == \E c \in Calls : Dropped(c)

\* C9: a read completion with websocket::error::closed processed while open
\* clears m_open in the step that posts that one completion to its handler,
\* and a read or write completion processed while m_open is clear posts
\* nothing.
C9_CleanClose ==
    [][\A op \in pending :
          /\ (op.kind = "read" /\ Completes(op) /\ m_open)
                => /\ PostsOne
                   /\ Last(posted').h = op.h
                   /\ Last(posted').ec = Last(posted').inp
                   /\ m_open' = (Last(posted').inp # "closed")
          /\ (op.kind \in IoKinds /\ Completes(op) /\ ~m_open)
                => (posted' = posted /\ ~m_open')]_vars

\* A read got the clean close and a later read or write was dropped.
C9_Witness ==
    \E c, d \in Calls :
        /\ c < d /\ c \in IoCalls /\ calls[c] = "read"
        /\ invoked[c] = <<"closed">>
        /\ Dropped(d)
        /\ ~m_open

NewCloseOps == { op \in pending' \ pending : op.kind = "close" }

\* C10: close() while neither connecting nor open issues no operation, posts
\* no handler and changes no state; an async_close is issued only by a
\* close() called while connecting or open, one per such call, and it
\* leaves both flags clear.
C10_CloseIdleNoop ==
    [][/\ (CloseStep /\ ~m_open /\ ~m_connecting)
            => UNCHANGED <<flagVars, m_stream, urlVars, m_endpoints,
                           m_connect_handler, pending, posted, invoked>>
       /\ NewCloseOps # {}
            => /\ CloseStep
               /\ m_open \/ m_connecting
               /\ ~m_open' /\ ~m_connecting'
               /\ Cardinality(NewCloseOps) = 1]_vars

\* close() was called twice in a row, the first one during an attempt.
C10_Witness ==
    \E i \in 2..Len(calls) :
        calls[i - 1] = "close" /\ calls[i] = "close" /\ superseded # {}

\* ------------------------------------------------------------------ C11
\* The scheme of a parsed URL is one the stream cannot serve.
Unsupported(p) ==
    /\ p.ec = "ok"
    /\ p.protocol # "ws"
    /\ ~(p.protocol = "wss" /\ m_ssl_context)

\* C11: a connect() made while neither open nor connecting, whose URL
\* parses but has a scheme other than ws/wss, or wss with no TLS context,
\* posts no_protocol_option to the handler of that call, issues no
\* operation, leaves both flags false and leaves the variant as it was.
C11_UnsupportedProtocol ==
    [][ (ConnectStep /\ ~m_open /\ ~m_connecting
            /\ Unsupported(parse_url_components(m_url')))
        => /\ posted' = Append(posted,
                    Completion("connect", Len(calls'), "no_protocol_option",
                               Len(calls'), "do_connect", "ok"))
           /\ pending' = pending
           /\ ~m_open' /\ ~m_connecting'
           /\ m_stream' = m_stream ]_vars

\* A wss URL was refused because no TLS context is configured.
C11_Witness ==
    /\ ~m_ssl_context
    /\ m_url[1] = "wss"
    /\ \E i \in DOMAIN posted :
            posted[i].ec = "no_protocol_option" /\ posted[i].h = Len(calls)

\* ------------------------------------------------------------------ C12
\* The step completes stage operation op with an error: the completion
\* handler posts the connect handler bound to an error it was handed.
StageFails(op) ==
    /\ Completes(op)
    /\ op.kind \in StageKinds
    /\ PostsOne
    /\ Last(posted').kind = "connect"
    /\ Last(posted').inp # "ok"

\* C12: a failure at any stage ends the attempt: the handler is given an
\* error, no further stage is started and the state is Idle afterwards
\* (neither connecting nor open).
C12_StageFailureResetsIdle ==
    [][ \A op \in pending :
            StageFails(op)
            => /\ Last(posted').ec # "ok"
               /\ pending' = pending \ {op}
               /\ ~m_connecting'
               /\ ~m_open' ]_vars

\* ------------------------------------------------------------------ C13
\* C13: a connect-handler invocation scheduled by a failed secure
\* handshake carries operation_aborted and not the TLS error; one
\* scheduled by a failed resolve, TCP connect or protocol handshake
\* carries the error that stage completed with.
C13_SslErrorSanitized ==
    \A i \in DOMAIN posted :
        LET r == posted[i] IN
        (r.kind = "connect" /\ r.inp # "ok")
        => /\ r.by = "on_ssl_handshake"
                => (r.ec = "operation_aborted" /\ r.ec # r.inp)
           /\ r.by \in {"on_resolve", "on_tcp_connect", "on_handshake"}
                => r.ec = r.inp

\* A secure handshake has failed with a TLS error and its report is queued.
C13_Witness ==
    \E i \in DOMAIN posted :
        /\ posted[i].by = "on_ssl_handshake"
        /\ posted[i].inp \in SslErrors
        /\ posted[i].ec = "operation_aborted"

\* ------------------------------------------------------------------ C14
\* C14: a handler runs only in a step of the event loop that takes the
\* oldest posted invocation and runs it, a step that is neither a connect()
\* call nor a completion and changes no field of the stream; the step that
\* scheduled the invocation only queued it, so its updates came first.
C14_HandlerOnlyPosted ==
    [][ /\ invoked' # invoked
            => /\ posted # <<>>
               /\ posted' = Tail(posted)
               /\ invoked' = [invoked EXCEPT
                                ![Head(posted).h] = Append(@, Head(posted).ec)]
               /\ UNCHANGED <<flagVars, m_stream, urlVars, m_endpoints,
                              m_connect_handler, pending, calls>>
        /\ (ConnectStep \/ PostsOne \/ pending' # pending)
            => invoked' = invoked ]_vars

\* A rejected connect() and a finished attempt have both had their handler
\* run, the stream being open.
C14_Witness ==
    /\ m_open
    /\ \E c, d \in ConnectCalls :
            invoked[c] = <<"ok">> /\ invoked[d] = <<"already_connected">>

\* ------------------------------------------------------------------ C15
\* The step is a connect() call that do_connect() accepts; p is the parse
\* of its URL.
Accepts(p) ==
    /\ ConnectStep
    /\ ~m_open /\ ~m_connecting
    /\ p.ec = "ok"
    /\ p.protocol = "ws" \/ (p.protocol = "wss" /\ m_ssl_context)

\* C15: an accepted connect() keeps a non-empty path and turns an empty one
\* into "/", keeps a positive port and turns any other into 443, and
\* issues the resolve for the parsed hostname.
C15_TargetDefaulting ==
    [][ LET p == parse_url_components(m_url') IN
        Accepts(p)
        => /\ m_target' = (IF p.path = "" THEN "/" ELSE p.path)
           /\ m_port' = (IF p.port <= 0 THEN DefaultPort ELSE p.port)
           /\ m_hostname' = p.hostname
           /\ \E op \in pending' \ pending :
                    /\ op.kind = "resolve"
                    /\ op.att = Len(calls')
                    /\ op.host = p.hostname ]_vars

\* ------------------------------------------------------------------ C16
\* The stage operations the step issues for the sequence of op, of a later
\* stage than op's own.
NextStageOps(op) ==
    { n \in pending' \ pending :
        n.kind \in StageKinds /\ n.att = op.att /\ n.kind # op.kind }

\* C16: once close() has cleared m_connecting during an attempt, the
\* completion of that attempt's resolve, TCP connect or secure handshake
\* starts no further stage of it.
C16_StageRevalidates ==
    [][ \A op \in pending :
            (/\ op.kind \in {"resolve", "tcp", "ssl"}
             /\ op.att \in superseded
             /\ ~m_connecting
             /\ Completes(op))
            => NextStageOps(op) = {} ]_vars

\* ------------------------------------------------------------------ C17
\* C17: while a stage operation of an attempt is outstanding, m_stream
\* holds the alternative emplaced by the connect() call that started the
\* attempt, and the stage started when the attempt's TCP connect succeeds
\* is the secure handshake for ssl_stream_type, the protocol handshake for
\* stream_type.
C17_VariantFixed ==
    [][ /\ \A n \in pending' :
                n.kind \in StageKinds => n.var = m_stream'
        /\ \A op \in pending :
                op.kind = "tcp"
                => \A n \in NextStageOps(op) :
                        n.kind = (IF op.var = "ssl" THEN "ssl"
                                  ELSE "handshake") ]_vars

\* ------------------------------------------------------------------ C18
\* C18: close() called while connecting or open leaves both flags clear
\* in the call itself, with its async_close still outstanding and nothing
\* posted; the completion of an async_close, whatever its result, only
\* retires the operation: no field changes, nothing is posted or invoked.
C18_CloseOptimistic ==
    [][ /\ (CloseStep /\ (m_open \/ m_connecting))
            => /\ ~m_open' /\ ~m_connecting'
               /\ \E n \in NewCloseOps : pending' = pending \cup {n}
               /\ UNCHANGED <<posted, invoked>>
        /\ \A op \in pending :
                (op.kind = "close" /\ Completes(op))
                => /\ pending' = pending \ {op}
                   /\ UNCHANGED <<flagVars, m_stream, urlVars, m_endpoints,
                                  m_connect_handler, posted, invoked>> ]_vars

\* close() was called during the first attempt and its async_close has
\* completed.
C18_Witness ==
    /\ calls = <<"connect", "close">>
    /\ superseded = {1}
    /\ \A op \in pending : op.kind # "close"
    /\ ~m_open /\ ~m_connecting

\* ------------------------------------------------------------------ C19
\* C19: m_open and m_connecting are never both set.
C19_FlagsExclusive == ~(m_open /\ m_connecting)

\* The stream is open while a stage operation of an earlier, superseded
\* attempt is still outstanding.
C19_Witness ==
    /\ m_open /\ ~m_connecting
    /\ InFlight \cap superseded # {}

\* ------------------------------------------------------------------ C20
\* The step completes a read with websocket::error::closed while open.
CleanCloseRead ==
    \E op \in pending :
        /\ op.kind = "read" /\ Completes(op)
        /\ PostsOne
        /\ Last(posted').inp = "closed"

\* C20: a read or write completed while m_open is set is forwarded to its
\* own handler with the result unchanged, and unless it is a read with the
\* clean close m_open stays set; apart from close(), no step but a read
\* completion with the clean close clears m_open.
C20_OnlyCleanCloseCloses ==
    [][ /\ \A op \in pending :
                (op.kind \in IoKinds /\ Completes(op) /\ m_open)
                => /\ PostsOne
                   /\ Last(posted').kind = op.kind
                   /\ Last(posted').h = op.h
                   /\ Last(posted').ec = Last(posted').inp
                   /\ ~CleanCloseRead => m_open'
        /\ (m_open /\ ~m_open') => (CloseStep \/ CleanCloseRead) ]_vars

\* A write completed with the clean close, its handler ran, the stream is
\* still open and a later read was delivered too.
C20_Witness ==
    \E c, d \in IoCalls :
        /\ c < d
        /\ calls[c] = "write" /\ invoked[c] = <<"closed">>
        /\ calls[d] = "read" /\ invoked[d] = <<"io_error">>
        /\ m_open

====
